---- MODULE Spec2Model ----
(***************************************************************************)
(* fastapi-crudrouter: the generated CRUD routes of MemoryCRUDRouter       *)
(* (core/mem.py) over its list of models and id counter, and the error     *)
(* translation of the database adapters (core/sqlalchemy.py,               *)
(* core/gino_starlette.py, core/databases.py, core/tortoise.py).           *)
(*                                                                         *)
(* A request is one atomic action: the route function runs to its return   *)
(* or to the HTTPException it raises.  resp records the last request and   *)
(* its answer, pre the store as it was before that request, allocated the  *)
(* ids _get_next_id has returned so far, in order, and posted the latest   *)
(* create with what has been asked of its record since.                    *)
(***************************************************************************)
EXTENDS Integers, Sequences, FiniteSets

VARIABLES
    pagination,   \* self.pagination, fixed by the constructor
    models,       \* self.models: the list of stored records
    _id,          \* self._id: the next id to hand out
    resp,         \* the last request and the answer it got
    pre,          \* [models, _id] before the last request
    allocated,    \* the ids returned by _get_next_id, oldest first
    posted,       \* the latest create: its id, its payload, and whether a
                  \* delete or an update of that id was requested since
    backend,      \* the router class constructed: "memory" or a database adapter
    rows,         \* the adapter's table: rows [id, key], key a UNIQUE column
    seq,          \* the table's autoincrement counter
    dbresp,       \* the adapter's last request, what the backend did, the answer
    flags,        \* the six route arguments given to CRUDGenerator.__init__
    routes,       \* self.routes: the routes registered, in order
    built,        \* whether __init__ has run
    registered,   \* how many custom handlers were registered on the router
    tpc,          \* per worker thread: where it stands in _create.route
    tlocal,       \* per worker thread: its local id_, the counter value it
                  \* loaded for self._id += 1, and its payload
    areq,         \* per request of an async adapter's delete_one: where it
                  \* stands, its item_id, the row it looked up, its answer
    session,      \* the SQLAlchemy Session of the last request, as the route
                  \* left it: its pending changes and its transaction's state
    dbpre,        \* the table before the last request of a database router
    dbrow,        \* the row the last request of a database router returned
    names,        \* the constructor's entity_name, entity_name_plural and
                  \* summary_prefix arguments
    summaries     \* self.entity_name, self.entity_name_plural and the
                  \* summary of each generated route

memvars == <<pagination, models, _id, resp, pre, allocated, posted>>
dbvars == <<rows, seq, dbresp>>
routevars == <<flags, routes, built, registered>>
threadvars == <<tpc, tlocal>>
sessvars == <<session, dbpre, dbrow>>
namevars == <<names, summaries>>
vars == <<pagination, models, _id, resp, pre, allocated, posted,
          backend, rows, seq, dbresp, flags, routes, built, registered,
          tpc, tlocal, areq, session, dbpre, dbrow, names, summaries>>

\* ---------------------------------------------------------------- bounds
MaxId == 3      \* creates stop once the counter has passed this id
MaxData == 2    \* payloads are 1..MaxData
MaxPage == 3    \* pages requested: 0..MaxPage
MaxSize == 2    \* sizes requested: 0..MaxSize
MaxRowId == 3   \* inserts stop once the autoincrement has passed this id
MaxKey == 2     \* values of the UNIQUE column are 1..MaxKey
MaxDeps == 1    \* a route argument lists up to MaxDeps dependencies
MaxCustom == 2  \* custom handlers registered on one router

Payloads == 1..MaxData
ItemIds == (0 - 1)..(MaxId + 1)
Pages == 0..MaxPage
Sizes == 0..MaxSize
Keys == 1..MaxKey
RowIds == 0..(MaxRowId + 1)
Backends == {"tortoise", "databases", "sqlalchemy", "gino"}

Min(a, b) == IF a <= b THEN a ELSE b
Max(a, b) == IF a >= b THEN a ELSE b

\* ------------------------------------------------------- status codes
HTTP_200_OK == 200
HTTP_201_CREATED == 201
HTTP_204_NO_CONTENT == 204
NOT_FOUND == 404
UNPROCESSABLE == 422

\* -------------------------------------------------------------- helpers
\* self.schema(**model_dict): a record of the id and the other fields
schema(data, id) == [id |-> id, data |-> data]

\* the answer a request gets; fields a request does not use are 0 / <<>>
Answer(op, status, item_id, data, page, size, body, total) ==
    [op |-> op, status |-> status, item_id |-> item_id, data |-> data,
     page |-> page, size |-> size, body |-> body, total |-> total]

\* faulty variant of IndexOf: the scan compares with >= where the code has ==
IndexOf_at_least(ms, item_id) ==
    IF \E k \in 1..Len(ms) : ms[k].id >= item_id
    THEN CHOOSE k \in 1..Len(ms) :
            /\ ms[k].id >= item_id
            /\ \A j \in 1..(k - 1) : ms[j].id < item_id
    ELSE 0

\* for ind, model in enumerate(ms): if model.id == item_id -> ind + 1;
\* 0 when the loop runs out
IndexOf(ms, item_id) ==
    IF \E k \in 1..Len(ms) : ms[k].id = item_id
    THEN CHOOSE k \in 1..Len(ms) :
            /\ ms[k].id = item_id
            /\ \A j \in 1..(k - 1) : ms[j].id # item_id
    ELSE 0

\* del ms[ind]
DelAt(ms, ind) == [k \in 1..(Len(ms) - 1) |-> IF k < ind THEN ms[k] ELSE ms[k + 1]]

\* faulty variant of Slice: the end index is taken as inclusive
Slice_inclusive(ms, a, b) == SubSeq(ms, a + 1, Min(b + 1, Len(ms)))

\* ms[a:b] for 0 <= a
Slice(ms, a, b) == SubSeq(ms, a + 1, Min(b, Len(ms)))

\* ms[a:]
SliceFrom(ms, a) == SubSeq(ms, a + 1, Len(ms))

\* faulty variant of get_next_id: the counter is read and never incremented
get_next_id_no_increment(counter) == [id_ |-> counter, counter |-> counter]

\* _get_next_id: the id returned and the counter left behind
get_next_id(counter) == [id_ |-> counter, counter |-> counter + 1]

\* ------------------------------------------------------ route functions
\* faulty variant of get_one_route: item_id is taken for the position in the list
get_one_route_by_position(ms, item_id) ==
    IF item_id \in 1..Len(ms)
    THEN [status |-> HTTP_200_OK, body |-> <<ms[item_id]>>]
    ELSE [status |-> NOT_FOUND, body |-> <<>>]

\* _get_one.route: the first model whose id is item_id, or NOT_FOUND
get_one_route(ms, item_id) ==
    LET ind == IndexOf(ms, item_id) IN
    IF ind # 0
    THEN [status |-> HTTP_200_OK, body |-> <<ms[ind]>>]
    ELSE [status |-> NOT_FOUND, body |-> <<>>]

\* faulty variant of create_models: the record is inserted at the front
create_models_prepend(ms, ready_model) == <<ready_model>> \o ms

\* _create.route: self.models.append(ready_model)
create_models(ms, ready_model) == Append(ms, ready_model)

\* faulty variant of update_models: the old entry is removed and the new one appended
update_models_move_to_end(ms, ind, data) ==
    Append(DelAt(ms, ind), schema(data, ms[ind].id))

\* _update.route: self.models[ind] = self.schema(**model.dict(), id=model_.id)
update_models(ms, ind, data) == [ms EXCEPT ![ind] = schema(data, ms[ind].id)]

\* faulty variant of delete_one_models: the last entry is popped, not entry ind
delete_one_models_pop(ms, ind) == SubSeq(ms, 1, Len(ms) - 1)

\* _delete_one.route: del self.models[ind]
delete_one_models(ms, ind) == DelAt(ms, ind)

\* faulty variant of delete_all_models: a local name is rebound, self.models is kept
delete_all_models_noop(ms) == ms

\* _delete_all.route: self.models = []
delete_all_models(ms) == <<>>

\* faulty variant of to_raw_params: page 0 is taken for the first page
to_raw_params_zero_based(page, size) ==
    [limit |-> size, offset |-> size * page, limit_is_none |-> FALSE]

\* Params(page, size).to_raw_params(), as the pagination tests pin it:
\* page 1 is the first page
to_raw_params(page, size) ==
    [limit |-> size, offset |-> size * (page - 1), limit_is_none |-> FALSE]

\* Params validation: page >= 1 and size >= 1, else the request is a 422
ValidParams(page, size) == page >= 1 /\ size >= 1

\* faulty variant of get_all_items: the slice ends at limit, not at offset + limit
get_all_items_end_at_limit(ms, raw) ==
    IF raw.limit_is_none
    THEN SliceFrom(ms, raw.offset)
    ELSE Slice(ms, raw.offset, raw.limit)

\* _get_all.route with pagination: the slice of self.models
get_all_items(ms, raw) ==
    IF raw.limit_is_none
    THEN SliceFrom(ms, raw.offset)
    ELSE Slice(ms, raw.offset, raw.offset + raw.limit)

\* faulty variant of get_all_route: without pagination the list is still cut
\* to one page
get_all_route_always_pages(paginated, ms, page, size) ==
    IF paginated /\ ValidParams(page, size)
    THEN [status |-> HTTP_200_OK, page |-> page, size |-> size,
          body |-> get_all_items(ms, to_raw_params(page, size)), total |-> Len(ms)]
    ELSE IF paginated
         THEN [status |-> UNPROCESSABLE, page |-> page, size |-> size,
               body |-> <<>>, total |-> 0]
         ELSE [status |-> HTTP_200_OK, page |-> 0, size |-> 0,
               body |-> SubSeq(ms, 1, Min(2, Len(ms))), total |-> 0]

\* _get_all.route: create_page(items, len(self.models), params) with
\* pagination, self.models without
get_all_route(paginated, ms, page, size) ==
    IF paginated
    THEN IF ValidParams(page, size)
         THEN [status |-> HTTP_200_OK, page |-> page, size |-> size,
               body |-> get_all_items(ms, to_raw_params(page, size)),
               total |-> Len(ms)]
         ELSE [status |-> UNPROCESSABLE, page |-> page, size |-> size,
               body |-> <<>>, total |-> 0]
    ELSE [status |-> HTTP_200_OK, page |-> 0, size |-> 0, body |-> ms, total |-> 0]

\* --------------------------------------------------------------- state
NoPost == [id |-> 0, data |-> 0, deleted |-> FALSE, updated |-> FALSE]

NoDbAnswer == [op |-> "init", status |-> 0, item_id |-> 0, key |-> 0, event |-> "ok"]

\* MemoryCRUDRouter.__init__
InitMemory ==
    /\ models = <<>>
    /\ _id = 1
    /\ resp = Answer("init", 0, 0, 0, 0, 0, <<>>, 0)
    /\ pre = [models |-> <<>>, _id |-> 1]
    /\ allocated = <<>>
    /\ posted = NoPost

\* an empty table
InitTable ==
    /\ rows = {}
    /\ seq = 1
    /\ dbresp = NoDbAnswer

\* get_routes()
RouteNames == {"get_all", "create", "delete_all", "get_one", "update", "delete_one"}

\* a route argument, Union[bool, DEPENDENCIES] with DEPENDENCIES =
\* Optional[Sequence[Depends]]: True, False, None or a sequence of dependencies
BoolFlag(truth) == [kind |-> "bool", truth |-> truth, deps |-> <<>>]
SeqFlag(deps) == [kind |-> "seq", truth |-> FALSE, deps |-> deps]
DepSeqs == UNION {[1..n -> {"dep"}] : n \in 0..MaxDeps}
NoneFlag == [kind |-> "none", truth |-> FALSE, deps |-> <<>>]
FlagValues == {BoolFlag(TRUE), BoolFlag(FALSE), NoneFlag} \cup {SeqFlag(d) : d \in DepSeqs}

\* the routers the other specifications do not look at
NoRouter ==
    /\ flags = [n \in RouteNames |-> BoolFlag(TRUE)]
    /\ routes = <<>>
    /\ built = FALSE
    /\ registered = 0

Threads == {1, 2}
Requests == {1, 2}

NoThreads ==
    /\ tpc = [t \in Threads |-> "idle"]
    /\ tlocal = [t \in Threads |-> [id_ |-> 0, loaded |-> 0, data |-> 0]]

NoRequest == [pc |-> "idle", item_id |-> 0, row |-> 0, status |-> 0]

NoRequests == areq = [r \in Requests |-> NoRequest]

\* a Session as db_func hands it to a route: nothing pending, its
\* transaction usable
CleanSession == [pending |-> {}, state |-> "active"]

NoRow == [id |-> 0, key |-> 0]

NoSession ==
    /\ session = CleanSession
    /\ dbpre = {}
    /\ dbrow = NoRow

\* an Optional[str] argument: None, or a string
None == <<>>
Str(text) == <<text>>

NoNames ==
    /\ names = [entity_name |-> None, entity_name_plural |-> None,
                summary_prefix |-> None]
    /\ summaries = [entity_name |-> "", entity_name_plural |-> "",
                    get_all |-> "", create |-> "", delete_all |-> "", get_one |-> ""]

Init ==
    /\ pagination \in BOOLEAN
    /\ backend = "memory"
    /\ InitMemory
    /\ InitTable
    /\ NoRouter
    /\ NoThreads
    /\ NoRequests
    /\ NoSession
    /\ NoNames

Snapshot == pre' = [models |-> models, _id |-> _id]

\* POST <prefix>/
Create(data) ==
    LET nxt == get_next_id(_id)
        ready_model == schema(data, nxt.id_)
    IN  /\ _id <= MaxId
        /\ Snapshot
        /\ _id' = nxt.counter
        /\ models' = create_models(models, ready_model)
        /\ allocated' = Append(allocated, nxt.id_)
        /\ posted' = [id |-> ready_model.id, data |-> data,
                      deleted |-> FALSE, updated |-> FALSE]
        /\ resp' = Answer("create", HTTP_201_CREATED, 0, data, 0, 0, <<ready_model>>, 0)
        /\ UNCHANGED <<pagination, backend, dbvars, routevars, threadvars, areq, sessvars, namevars>>

\* PATCH <prefix>/{item_id}/
Update(item_id, data) ==
    LET ind == IndexOf(models, item_id) IN
    /\ Snapshot
    /\ IF ind # 0
       THEN LET ms == update_models(models, ind, data) IN
            /\ models' = ms
            /\ resp' = Answer("update", HTTP_200_OK, item_id, data, 0, 0, <<ms[ind]>>, 0)
       ELSE /\ models' = models
            /\ resp' = Answer("update", NOT_FOUND, item_id, data, 0, 0, <<>>, 0)
    /\ posted' = IF item_id = posted.id THEN [posted EXCEPT !.updated = TRUE] ELSE posted
    /\ UNCHANGED <<pagination, _id, allocated, backend, dbvars, routevars, threadvars, areq, sessvars, namevars>>

\* DELETE <prefix>/{item_id}/
DeleteOne(item_id) ==
    LET ind == IndexOf(models, item_id) IN
    /\ Snapshot
    /\ IF ind # 0
       THEN /\ models' = delete_one_models(models, ind)
            /\ resp' = Answer("delete_one", HTTP_200_OK, item_id, 0, 0, 0, <<models[ind]>>, 0)
       ELSE /\ models' = models
            /\ resp' = Answer("delete_one", NOT_FOUND, item_id, 0, 0, 0, <<>>, 0)
    /\ posted' = IF item_id = posted.id THEN [posted EXCEPT !.deleted = TRUE] ELSE posted
    /\ UNCHANGED <<pagination, _id, allocated, backend, dbvars, routevars, threadvars, areq, sessvars, namevars>>

\* faulty variant of DeleteAll: emptying the store also resets the id counter
DeleteAll_resets_counter ==
    /\ Snapshot
    /\ models' = <<>>
    /\ _id' = 1
    /\ resp' = Answer("delete_all", HTTP_204_NO_CONTENT, 0, 0, 0, 0, <<>>, 0)
    /\ posted' = IF posted.id # 0 THEN [posted EXCEPT !.deleted = TRUE] ELSE posted
    /\ UNCHANGED <<pagination, allocated, backend, dbvars, routevars, threadvars, areq, sessvars, namevars>>

\* DELETE <prefix>/
DeleteAll ==
    /\ Snapshot
    /\ models' = delete_all_models(models)
    /\ resp' = Answer("delete_all", HTTP_204_NO_CONTENT, 0, 0, 0, 0, <<>>, 0)
    /\ posted' = IF posted.id # 0 THEN [posted EXCEPT !.deleted = TRUE] ELSE posted
    /\ UNCHANGED <<pagination, _id, allocated, backend, dbvars, routevars, threadvars, areq, sessvars, namevars>>

\* GET <prefix>/{item_id}/
GetOne(item_id) ==
    LET r == get_one_route(models, item_id) IN
    /\ Snapshot
    /\ resp' = Answer("get_one", r.status, item_id, 0, 0, 0, r.body, 0)
    /\ UNCHANGED <<pagination, models, _id, allocated, posted, backend, dbvars, routevars, threadvars, areq, sessvars, namevars>>

\* GET <prefix>/?page=..&size=..
GetAll(page, size) ==
    LET r == get_all_route(pagination, models, page, size) IN
    /\ Snapshot
    /\ resp' = Answer("get_all", r.status, 0, 0, r.page, r.size, r.body, r.total)
    /\ UNCHANGED <<pagination, models, _id, allocated, posted, backend, dbvars, routevars, threadvars, areq, sessvars, namevars>>

Next ==
    \/ \E data \in Payloads : Create(data)
    \/ \E item_id \in ItemIds, data \in Payloads : Update(item_id, data)
    \/ \E item_id \in ItemIds : DeleteOne(item_id)
    \/ DeleteAll
    \/ \E item_id \in ItemIds : GetOne(item_id)
    \/ \E page \in Pages, size \in Sizes : GetAll(page, size)

Spec == Init /\ [][Next]_vars

\* ------------------------------------------------- database adapters
\* What the backend library does with a statement: the table it leaves and
\* the exception it raises ("none", or "IntegrityError" for a violated
\* constraint; for the databases and Gino drivers the driver's own
\* exception class for it).

\* the table's row with this primary key
row_of(table, item_id) ==
    IF \E r \in table : r.id = item_id
    THEN CHOOSE r \in table : r.id = item_id
    ELSE NoRow

\* INSERT: a second row with the same key violates the UNIQUE constraint
db_insert(table, next_id, key) ==
    IF \E r \in table : r.key = key
    THEN [raised |-> "IntegrityError", table |-> table]
    ELSE [raised |-> "none", table |-> table \cup {[id |-> next_id, key |-> key]}]

\* faulty variant of db_update: an UPDATE that matches no row inserts one
db_update_upsert(table, item_id, key) ==
    IF \E r \in table : r.id # item_id /\ r.key = key
    THEN [raised |-> "IntegrityError", table |-> table]
    ELSE [raised |-> "none",
          table |-> {r \in table : r.id # item_id} \cup {[id |-> item_id, key |-> key]}]

\* UPDATE ... WHERE pk = item_id: no row matched is no error
db_update(table, item_id, key) ==
    IF ~\E r \in table : r.id = item_id
    THEN [raised |-> "none", table |-> table]
    ELSE IF \E r \in table : r.id # item_id /\ r.key = key
         THEN [raised |-> "IntegrityError", table |-> table]
         ELSE [raised |-> "none",
               table |-> {r \in table : r.id # item_id} \cup {[id |-> item_id, key |-> key]}]

\* DELETE ... WHERE pk = item_id: a row that a foreign key of another
\* table still references cannot go
db_delete(table, item_id, referenced) ==
    IF (\E r \in table : r.id = item_id) /\ referenced
    THEN [raised |-> "IntegrityError", table |-> table]
    ELSE [raised |-> "none", table |-> {r \in table : r.id # item_id}]

\* _get_one.route of every adapter: the row with this pk, or NOT_FOUND
db_get_one(table, item_id) ==
    IF \E r \in table : r.id = item_id
    THEN [status |-> HTTP_200_OK, raised |-> "none"]
    ELSE [status |-> NOT_FOUND, raised |-> "HTTPException"]

\* _delete_one.route of every adapter returns the row that _get_one found,
\* which it calls before it issues the delete
delete_one_row(table, item_id) == row_of(table, item_id)

\* an exception no handler of the route catches leaves the route as it is:
\* the framework answers 500
Uncaught == [status |-> 500, translated |-> FALSE]

\* CRUDGenerator._raise: HTTPException(422, ...)
raise_(e) == UNPROCESSABLE

DbAnswer(status, table, event) == [status |-> status, table |-> table, event |-> event]

\* SQLAlchemyCRUDRouter._create.route
sqlalchemy_create(table, next_id, key) ==
    LET c == db_insert(table, next_id, key) IN
    IF c.raised = "IntegrityError"
    THEN DbAnswer(UNPROCESSABLE, table, "integrity")
    ELSE DbAnswer(HTTP_201_CREATED, c.table, "ok")

\* SQLAlchemyCRUDRouter._update.route
sqlalchemy_update(table, item_id, key) ==
    LET g == db_get_one(table, item_id)
        c == db_update(table, item_id, key)
    IN  IF g.raised # "none"
        THEN DbAnswer(g.status, table, "missing")
        ELSE IF c.raised = "IntegrityError"
             THEN DbAnswer(raise_(c.raised), table, "integrity")
             ELSE DbAnswer(HTTP_200_OK, c.table, "ok")

\* SQLAlchemyCRUDRouter._delete_one.route: no except clause
sqlalchemy_delete_one(table, item_id, referenced) ==
    LET g == db_get_one(table, item_id)
        c == db_delete(table, item_id, referenced)
    IN  IF g.raised # "none"
        THEN DbAnswer(g.status, table, "missing")
        ELSE IF c.raised # "none"
             THEN DbAnswer(Uncaught.status, table, "integrity")
             ELSE DbAnswer(HTTP_200_OK, c.table, "ok")

\* GinoCRUDRouter._create.route
gino_create(table, next_id, key) ==
    LET c == db_insert(table, next_id, key) IN
    IF c.raised = "IntegrityError"
    THEN DbAnswer(UNPROCESSABLE, table, "integrity")
    ELSE DbAnswer(HTTP_201_CREATED, c.table, "ok")

\* GinoCRUDRouter._update.route
gino_update(table, item_id, key) ==
    LET g == db_get_one(table, item_id)
        c == db_update(table, item_id, key)
    IN  IF g.raised # "none"
        THEN DbAnswer(g.status, table, "missing")
        ELSE IF c.raised = "IntegrityError"
             THEN DbAnswer(raise_(c.raised), table, "integrity")
             ELSE DbAnswer(HTTP_200_OK, c.table, "ok")

\* GinoCRUDRouter._delete_one.route: no except clause
gino_delete_one(table, item_id, referenced) ==
    LET g == db_get_one(table, item_id)
        c == db_delete(table, item_id, referenced)
    IN  IF g.raised # "none"
        THEN DbAnswer(g.status, table, "missing")
        ELSE IF c.raised # "none"
             THEN DbAnswer(Uncaught.status, table, "integrity")
             ELSE DbAnswer(HTTP_200_OK, c.table, "ok")

\* DatabasesCRUDRouter._create.route: except Exception -> 422
databases_create(table, next_id, key) ==
    LET c == db_insert(table, next_id, key)
        g == db_get_one(c.table, next_id)
    IN  IF c.raised # "none"
        THEN DbAnswer(UNPROCESSABLE, table, "integrity")
        ELSE IF g.raised # "none"
             THEN DbAnswer(UNPROCESSABLE, c.table, "missing")
             ELSE DbAnswer(HTTP_201_CREATED, c.table, "ok")

\* DatabasesCRUDRouter._update.route: the UPDATE runs first, then _get_one;
\* except Exception -> NOT_FOUND
databases_update(table, item_id, key) ==
    LET c == db_update(table, item_id, key)
        g == db_get_one(c.table, item_id)
    IN  IF c.raised # "none"
        THEN DbAnswer(NOT_FOUND, table, "integrity")
        ELSE IF g.raised # "none"
             THEN DbAnswer(NOT_FOUND, c.table, "missing")
             ELSE DbAnswer(HTTP_200_OK, c.table, "ok")

\* DatabasesCRUDRouter._delete_one.route: except Exception -> NOT_FOUND
databases_delete_one(table, item_id, referenced) ==
    LET g == db_get_one(table, item_id)
        c == db_delete(table, item_id, referenced)
    IN  IF g.raised # "none"
        THEN DbAnswer(NOT_FOUND, table, "missing")
        ELSE IF c.raised # "none"
             THEN DbAnswer(NOT_FOUND, table, "integrity")
             ELSE DbAnswer(HTTP_200_OK, c.table, "ok")

\* TortoiseCRUDRouter._create.route: no except clause
tortoise_create(table, next_id, key) ==
    LET c == db_insert(table, next_id, key) IN
    IF c.raised # "none"
    THEN DbAnswer(Uncaught.status, table, "integrity")
    ELSE DbAnswer(HTTP_201_CREATED, c.table, "ok")

\* TortoiseCRUDRouter._update.route: the UPDATE runs first, then _get_one;
\* no except clause
tortoise_update(table, item_id, key) ==
    LET c == db_update(table, item_id, key)
        g == db_get_one(c.table, item_id)
    IN  IF c.raised # "none"
        THEN DbAnswer(Uncaught.status, table, "integrity")
        ELSE IF g.raised # "none"
             THEN DbAnswer(g.status, c.table, "missing")
             ELSE DbAnswer(HTTP_200_OK, c.table, "ok")

\* TortoiseCRUDRouter._delete_one.route: no except clause
tortoise_delete_one(table, item_id, referenced) ==
    LET g == db_get_one(table, item_id)
        c == db_delete(table, item_id, referenced)
    IN  IF g.raised # "none"
        THEN DbAnswer(g.status, table, "missing")
        ELSE IF c.raised # "none"
             THEN DbAnswer(Uncaught.status, table, "integrity")
             ELSE DbAnswer(HTTP_200_OK, c.table, "ok")

\* a database router is constructed over an empty table
InitDB ==
    /\ pagination = FALSE
    /\ backend \in Backends
    /\ InitMemory
    /\ InitTable
    /\ NoRouter
    /\ NoThreads
    /\ NoRequests
    /\ NoSession
    /\ NoNames

\* POST <prefix>/ on a database router
DbCreate(key) ==
    LET a == CASE backend = "sqlalchemy" -> sqlalchemy_create(rows, seq, key)
               [] backend = "gino" -> gino_create(rows, seq, key)
               [] backend = "databases" -> databases_create(rows, seq, key)
               [] backend = "tortoise" -> tortoise_create(rows, seq, key)
    IN  /\ backend \in Backends
        /\ seq <= MaxRowId
        /\ rows' = a.table
        /\ seq' = IF a.table # rows THEN seq + 1 ELSE seq
        /\ dbresp' = [op |-> "create", status |-> a.status, item_id |-> 0,
                      key |-> key, event |-> a.event]
        /\ dbpre' = rows
        /\ dbrow' = IF a.status = HTTP_201_CREATED THEN row_of(a.table, seq) ELSE NoRow
        /\ UNCHANGED <<memvars, routevars, threadvars, areq, backend, session, namevars>>

\* PATCH <prefix>/{item_id}/ on a database router
DbUpdate(item_id, key) ==
    LET a == CASE backend = "sqlalchemy" -> sqlalchemy_update(rows, item_id, key)
               [] backend = "gino" -> gino_update(rows, item_id, key)
               [] backend = "databases" -> databases_update(rows, item_id, key)
               [] backend = "tortoise" -> tortoise_update(rows, item_id, key)
    IN  /\ backend \in Backends
        /\ rows' = a.table
        /\ dbresp' = [op |-> "update", status |-> a.status, item_id |-> item_id,
                      key |-> key, event |-> a.event]
        /\ dbpre' = rows
        /\ dbrow' = IF a.status = HTTP_200_OK THEN row_of(a.table, item_id) ELSE NoRow
        /\ UNCHANGED <<memvars, routevars, threadvars, areq, backend, seq, session, namevars>>

\* DELETE <prefix>/{item_id}/ on a database router
DbDeleteOne(item_id, referenced) ==
    LET a == CASE backend = "sqlalchemy" -> sqlalchemy_delete_one(rows, item_id, referenced)
               [] backend = "gino" -> gino_delete_one(rows, item_id, referenced)
               [] backend = "databases" -> databases_delete_one(rows, item_id, referenced)
               [] backend = "tortoise" -> tortoise_delete_one(rows, item_id, referenced)
    IN  /\ backend \in Backends
        /\ rows' = a.table
        /\ dbresp' = [op |-> "delete_one", status |-> a.status, item_id |-> item_id,
                      key |-> 0, event |-> a.event]
        /\ dbpre' = rows
        /\ dbrow' = IF a.status = HTTP_200_OK THEN delete_one_row(rows, item_id) ELSE NoRow
        /\ UNCHANGED <<memvars, routevars, threadvars, areq, backend, seq, session, namevars>>

NextDB ==
    \/ \E key \in Keys : DbCreate(key)
    \/ \E item_id \in RowIds, key \in Keys : DbUpdate(item_id, key)
    \/ \E item_id \in RowIds, referenced \in BOOLEAN : DbDeleteOne(item_id, referenced)

SpecDB == InitDB /\ [][NextDB]_vars

\* ------------------------------------------------- route registration
\* Paths are written without self.prefix, which add_api_route puts in front
\* of every path and remove_api_route in front of the path it looks for.
CollectionPath == "/"
ItemPath == "/{item_id}/"
Paths == {CollectionPath, ItemPath}

\* NOT_FOUND = HTTPException(404, "Item not found")
NOT_FOUND_ERROR == [status_code |-> NOT_FOUND, detail |-> "Item not found"]

\* if <route argument>: the truth value Python gives the argument
Truthy(flag) ==
    CASE flag.kind = "bool" -> flag.truth
      [] flag.kind = "seq" -> Len(flag.deps) > 0
      [] flag.kind = "none" -> FALSE

\* faulty variant of _add_api_route: the error responses are not passed on
_add_api_route_no_responses(name, path, methods, dependencies, error_responses, status_code) ==
    [name |-> name, path |-> path, methods |-> methods,
     dependencies |-> IF dependencies.kind = "bool" THEN <<>> ELSE dependencies.deps,
     responses |-> {},
     status_code |-> status_code, order |-> 0]

\* CRUDGenerator._add_api_route: the route that add_api_route registers
_add_api_route(name, path, methods, dependencies, error_responses, status_code) ==
    [name |-> name, path |-> path, methods |-> methods,
     dependencies |-> IF dependencies.kind = "bool" THEN <<>> ELSE dependencies.deps,
     responses |-> {[status_code |-> err.status_code, detail |-> err.detail] :
                       err \in error_responses},
     status_code |-> status_code, order |-> 0]

\* __init__: if get_all_route: self._add_api_route("/", ..., methods=["GET"])
get_all_api_route(flag) ==
    _add_api_route("get_all", CollectionPath, {"GET"}, flag, {}, HTTP_200_OK)

\* __init__: if create_route: ... methods=["POST"], 201
create_api_route(flag) ==
    _add_api_route("create", CollectionPath, {"POST"}, flag, {}, HTTP_201_CREATED)

\* __init__: if delete_all_route: ... methods=["DELETE"], 204
delete_all_api_route(flag) ==
    _add_api_route("delete_all", CollectionPath, {"DELETE"}, flag, {}, HTTP_204_NO_CONTENT)

\* __init__: if get_one_route: ... methods=["GET"], error_responses=[NOT_FOUND]
get_one_api_route(flag) ==
    _add_api_route("get_one", ItemPath, {"GET"}, flag, {NOT_FOUND_ERROR}, HTTP_200_OK)

\* faulty variant of update_api_route: the update route is registered for PUT
update_api_route_put(flag) ==
    _add_api_route("update", ItemPath, {"PUT"}, flag, {NOT_FOUND_ERROR}, HTTP_200_OK)

\* __init__: if update_route: ... methods=["PATCH"], error_responses=[NOT_FOUND]
update_api_route(flag) ==
    _add_api_route("update", ItemPath, {"PATCH"}, flag, {NOT_FOUND_ERROR}, HTTP_200_OK)

\* __init__: if delete_one_route: ... methods=["DELETE"], error_responses=[NOT_FOUND]
delete_one_api_route(flag) ==
    _add_api_route("delete_one", ItemPath, {"DELETE"}, flag, {NOT_FOUND_ERROR}, HTTP_200_OK)

IfFlag(flag, route) == IF Truthy(flag) THEN <<route>> ELSE <<>>

\* CRUDGenerator.__init__: the six if blocks, in their order
generated_routes(fl) ==
    IfFlag(fl["get_all"], get_all_api_route(fl["get_all"]))
    \o IfFlag(fl["create"], create_api_route(fl["create"]))
    \o IfFlag(fl["delete_all"], delete_all_api_route(fl["delete_all"]))
    \o IfFlag(fl["get_one"], get_one_api_route(fl["get_one"]))
    \o IfFlag(fl["update"], update_api_route(fl["update"]))
    \o IfFlag(fl["delete_one"], delete_one_api_route(fl["delete_one"]))

\* the response codes the generated API schema declares for a route: its
\* status_code and the keys of its responses
openapi_responses(route) ==
    {route.status_code} \cup {r.status_code : r \in route.responses}

\* the arguments of a constructor call
InitRoutes ==
    /\ pagination = FALSE
    /\ backend = "memory"
    /\ InitMemory
    /\ InitTable
    /\ NoThreads
    /\ NoRequests
    /\ NoSession
    /\ NoNames
    /\ flags \in [RouteNames -> FlagValues]
    /\ routes = <<>>
    /\ built = FALSE
    /\ registered = 0

\* CRUDGenerator.__init__
Construct ==
    /\ ~built
    /\ built' = TRUE
    /\ routes' = generated_routes(flags)
    /\ UNCHANGED <<memvars, backend, dbvars, flags, registered, threadvars, areq, sessvars, namevars>>

NextRoutes == Construct

SpecRoutes == InitRoutes /\ [][NextRoutes]_vars

\* remove_api_route: for route in self.routes: if it matches,
\* self.routes.remove(route). The loop runs over the list it shrinks: after
\* a removal at position i the next route looked at is the one that has
\* moved to position i + 1.
RECURSIVE remove_from(_, _, _, _)
remove_from(rs, i, path, methods_) ==
    IF i > Len(rs)
    THEN rs
    ELSE IF rs[i].path = path /\ rs[i].methods = methods_
         THEN remove_from(DelAt(rs, i), i + 1, path, methods_)
         ELSE remove_from(rs, i + 1, path, methods_)

remove_api_route(rs, path, methods) ==
    remove_from(rs, 1, path, {methods[k] : k \in 1..Len(methods)})

\* the handler a decorator registers: APIRouter.add_api_route with the
\* framework's defaults
custom_route(path, methods, n) ==
    [name |-> "custom", path |-> path,
     methods |-> {methods[k] : k \in 1..Len(methods)},
     dependencies |-> <<>>, responses |-> {},
     status_code |-> HTTP_200_OK, order |-> n]

\* CRUDGenerator.api_route, and the decorator it returns applied to a handler
api_route(rs, path, kwargs, n) ==
    LET methods == IF kwargs.has_methods THEN kwargs.methods ELSE <<"GET">> IN
    Append(remove_api_route(rs, path, methods), custom_route(path, methods, n))

Methods(ms) == [has_methods |-> TRUE, methods |-> ms]

\* CRUDGenerator.get; APIRouter.get calls self.api_route(path, methods=["GET"])
get(rs, path, n) == api_route(remove_api_route(rs, path, <<"Get">>), path, Methods(<<"GET">>), n)

\* CRUDGenerator.post
post(rs, path, n) == api_route(remove_api_route(rs, path, <<"POST">>), path, Methods(<<"POST">>), n)

\* CRUDGenerator.put
put(rs, path, n) == api_route(remove_api_route(rs, path, <<"PUT">>), path, Methods(<<"PUT">>), n)

\* CRUDGenerator.delete
delete(rs, path, n) == api_route(remove_api_route(rs, path, <<"DELETE">>), path, Methods(<<"DELETE">>), n)

\* the methods arguments api_route is called with: none, one method, two
ApiRouteKwargs ==
    {[has_methods |-> FALSE, methods |-> <<>>],
     Methods(<<"PATCH">>), Methods(<<"GET">>), Methods(<<"GET", "POST">>)}

\* a router built with every route enabled
InitOverride ==
    /\ pagination = FALSE
    /\ backend = "memory"
    /\ InitMemory
    /\ InitTable
    /\ NoThreads
    /\ NoRequests
    /\ NoSession
    /\ NoNames
    /\ flags = [n \in RouteNames |-> BoolFlag(TRUE)]
    /\ routes = generated_routes(flags)
    /\ built = TRUE
    /\ registered = 0

\* @router.get(path) on a handler
OverrideGet(path) ==
    /\ registered < MaxCustom
    /\ registered' = registered + 1
    /\ routes' = get(routes, path, registered + 1)
    /\ UNCHANGED <<memvars, backend, dbvars, flags, built, threadvars, areq, sessvars, namevars>>

\* @router.post(path) on a handler
OverridePost(path) ==
    /\ registered < MaxCustom
    /\ registered' = registered + 1
    /\ routes' = post(routes, path, registered + 1)
    /\ UNCHANGED <<memvars, backend, dbvars, flags, built, threadvars, areq, sessvars, namevars>>

\* @router.put(path) on a handler
OverridePut(path) ==
    /\ registered < MaxCustom
    /\ registered' = registered + 1
    /\ routes' = put(routes, path, registered + 1)
    /\ UNCHANGED <<memvars, backend, dbvars, flags, built, threadvars, areq, sessvars, namevars>>

\* @router.delete(path) on a handler
OverrideDelete(path) ==
    /\ registered < MaxCustom
    /\ registered' = registered + 1
    /\ routes' = delete(routes, path, registered + 1)
    /\ UNCHANGED <<memvars, backend, dbvars, flags, built, threadvars, areq, sessvars, namevars>>

\* @router.api_route(path, methods=...) on a handler
OverrideApiRoute(path, kwargs) ==
    /\ registered < MaxCustom
    /\ registered' = registered + 1
    /\ routes' = api_route(routes, path, kwargs, registered + 1)
    /\ UNCHANGED <<memvars, backend, dbvars, flags, built, threadvars, areq, sessvars, namevars>>

NextOverride ==
    \/ \E path \in Paths : OverrideGet(path)
    \/ \E path \in Paths : OverridePost(path)
    \/ \E path \in Paths : OverridePut(path)
    \/ \E path \in Paths : OverrideDelete(path)
    \/ \E path \in Paths, kwargs \in ApiRouteKwargs : OverrideApiRoute(path, kwargs)

SpecOverride == InitOverride /\ [][NextOverride]_vars

\* ------------------------------------------------- interleaved creates
\* MemoryCRUDRouter's routes are plain functions, which the framework runs on
\* the threads of a pool: two create requests run _create.route and
\* _get_next_id side by side, and a thread can be suspended between any two
\* of their statements (and between the load and the store of self._id += 1).

InitConc ==
    /\ pagination = FALSE
    /\ backend = "memory"
    /\ InitMemory
    /\ InitTable
    /\ NoRouter
    /\ NoThreads
    /\ NoRequests
    /\ NoSession
    /\ NoNames

\* _create.route up to _get_next_id: id_ = self._id
CreateRead(t, data) ==
    /\ tpc[t] = "idle"
    /\ _id <= MaxId
    /\ Len(models) < MaxId
    /\ tpc' = [tpc EXCEPT ![t] = "read"]
    /\ tlocal' = [tlocal EXCEPT ![t] = [id_ |-> _id, loaded |-> 0, data |-> data]]
    /\ UNCHANGED <<memvars, backend, dbvars, routevars, areq, sessvars, namevars>>

\* self._id += 1: the load of self._id
CreateLoad(t) ==
    /\ tpc[t] = "read"
    /\ tpc' = [tpc EXCEPT ![t] = "loaded"]
    /\ tlocal' = [tlocal EXCEPT ![t].loaded = _id]
    /\ UNCHANGED <<memvars, backend, dbvars, routevars, areq, sessvars, namevars>>

\* self._id += 1: the store of the sum; return id_
CreateStore(t) ==
    /\ tpc[t] = "loaded"
    /\ tpc' = [tpc EXCEPT ![t] = "allocated"]
    /\ _id' = tlocal[t].loaded + 1
    /\ allocated' = Append(allocated, tlocal[t].id_)
    /\ UNCHANGED <<pagination, models, resp, pre, posted, backend, dbvars, routevars,
                   tlocal, areq, sessvars, namevars>>

\* ready_model = self.schema(**model_dict); self.models.append(ready_model)
CreateAppend(t) ==
    /\ tpc[t] = "allocated"
    /\ tpc' = [tpc EXCEPT ![t] = "idle"]
    /\ models' = create_models(models, schema(tlocal[t].data, tlocal[t].id_))
    /\ UNCHANGED <<pagination, _id, resp, pre, allocated, posted, backend, dbvars,
                   routevars, tlocal, areq, sessvars, namevars>>

NextConc ==
    \/ \E t \in Threads, data \in Payloads : CreateRead(t, data)
    \/ \E t \in Threads : CreateLoad(t)
    \/ \E t \in Threads : CreateStore(t)
    \/ \E t \in Threads : CreateAppend(t)

SpecConc == InitConc /\ [][NextConc]_vars

\* ------------------------------------------------- interleaved async deletes
\* The routes of the Databases, Gino and Tortoise routers are coroutines:
\* at each await the event loop can run another request.
AsyncBackends == {"databases", "gino", "tortoise"}

InitAsync ==
    /\ pagination = FALSE
    /\ backend \in AsyncBackends
    /\ InitMemory
    /\ InitTable
    /\ NoRouter
    /\ NoThreads
    /\ NoRequests
    /\ NoSession
    /\ NoNames

\* _delete_one.route up to its first await: await self._get_one()(item_id),
\* which raises NOT_FOUND for a missing row
DeleteOneLookup(r, item_id) ==
    LET g == db_get_one(rows, item_id) IN
    /\ areq[r].pc = "idle"
    /\ areq' = [areq EXCEPT ![r] =
                  IF g.raised = "none"
                  THEN [pc |-> "found", item_id |-> item_id, row |-> item_id, status |-> 0]
                  ELSE [pc |-> "done", item_id |-> item_id, row |-> 0, status |-> NOT_FOUND]]
    /\ UNCHANGED <<memvars, backend, dbvars, routevars, threadvars, sessvars, namevars>>

\* _delete_one.route from its second await: the DELETE, then return the row
\* looked up before. Databases answers any exception with NOT_FOUND, Gino
\* and Tortoise catch none.
DeleteOneExecute(r, referenced) ==
    LET c == db_delete(rows, areq[r].item_id, referenced) IN
    /\ areq[r].pc = "found"
    /\ rows' = c.table
    /\ areq' = [areq EXCEPT ![r].pc = "done",
                            ![r].status =
                                IF c.raised = "none" THEN HTTP_200_OK
                                ELSE IF backend = "databases" THEN NOT_FOUND
                                ELSE Uncaught.status]
    /\ UNCHANGED <<memvars, backend, seq, dbresp, routevars, threadvars, sessvars, namevars>>

NextAsync ==
    \/ \E key \in Keys : DbCreate(key)
    \/ \E r \in Requests, item_id \in RowIds : DeleteOneLookup(r, item_id)
    \/ \E r \in Requests, referenced \in BOOLEAN : DeleteOneExecute(r, referenced)

SpecAsync == InitAsync /\ [][NextAsync]_vars

\* ------------------------------------------------- the SQLAlchemy session
\* SQLAlchemyCRUDRouter's routes work through a Session that db_func hands
\* them: add, attribute assignment and delete leave a pending change in the
\* session, commit flushes the pending changes to the table.
Insert(row) == [op |-> "insert", id |-> row.id, key |-> row.key]
Assign(item_id, key) == [op |-> "update", id |-> item_id, key |-> key]
Remove(item_id) == [op |-> "delete", id |-> item_id, key |-> 0]

\* db.add(db_model)
session_add(s, row) == [s EXCEPT !.pending = @ \cup {Insert(row)}]

\* setattr(db_model, key, value) on a row the session loaded
session_setattr(s, item_id, key) == [s EXCEPT !.pending = @ \cup {Assign(item_id, key)}]

\* db.delete(db_model)
session_delete(s, item_id) == [s EXCEPT !.pending = @ \cup {Remove(item_id)}]

\* the statement a pending change is flushed as
flush_change(table, ch, referenced) ==
    CASE ch.op = "insert" -> db_insert(table, ch.id, ch.key)
      [] ch.op = "update" -> db_update(table, ch.id, ch.key)
      [] ch.op = "delete" -> db_delete(table, ch.id, referenced)

\* db.commit(): flush what is pending and commit. A flush that fails raises
\* and leaves the session's transaction unusable until rollback(); whether
\* the session still lists the change then (kept) is the library's affair.
session_commit(table, s, referenced, kept) ==
    IF s.pending = {}
    THEN [raised |-> "none", table |-> table, session |-> s]
    ELSE LET ch == CHOOSE ch \in s.pending : TRUE
             f == flush_change(table, ch, referenced)
         IN  IF f.raised = "none"
             THEN [raised |-> "none", table |-> f.table, session |-> CleanSession]
             ELSE [raised |-> f.raised, table |-> table,
                   session |-> [pending |-> IF kept THEN s.pending ELSE {},
                                state |-> "deactive"]]

\* faulty variant of session_rollback: the session is left as the failed flush left it
session_rollback_noop(s) == s

\* db.rollback()
session_rollback(s) == CleanSession

SessionAnswer(status, table, event, s, row) ==
    [status |-> status, table |-> table, event |-> event, session |-> s, row |-> row]

\* SQLAlchemyCRUDRouter._create.route, statement by statement
sqlalchemy_create_route(table, next_id, key, kept) ==
    LET db_model == [id |-> next_id, key |-> key]
        added == session_add(CleanSession, db_model)
        c == session_commit(table, added, FALSE, kept)
    IN  IF c.raised = "IntegrityError"
        THEN SessionAnswer(UNPROCESSABLE, c.table, "integrity",
                           session_rollback(c.session), NoRow)
        ELSE SessionAnswer(HTTP_201_CREATED, c.table, "ok", c.session, db_model)

\* SQLAlchemyCRUDRouter._update.route, statement by statement
sqlalchemy_update_route(table, item_id, key, kept) ==
    LET g == db_get_one(table, item_id)
        assigned == session_setattr(CleanSession, item_id, key)
        c == session_commit(table, assigned, FALSE, kept)
    IN  IF g.raised # "none"
        THEN SessionAnswer(g.status, table, "missing", CleanSession, NoRow)
        ELSE IF c.raised = "IntegrityError"
             THEN SessionAnswer(raise_(c.raised), c.table, "integrity",
                                session_rollback(c.session), NoRow)
             ELSE SessionAnswer(HTTP_200_OK, c.table, "ok", c.session,
                                row_of(c.table, item_id))

\* SQLAlchemyCRUDRouter._delete_one.route, statement by statement: no except
\* clause, so no rollback
sqlalchemy_delete_one_route(table, item_id, referenced, kept) ==
    LET g == db_get_one(table, item_id)
        db_model == row_of(table, item_id)
        deleted == session_delete(CleanSession, item_id)
        c == session_commit(table, deleted, referenced, kept)
    IN  IF g.raised # "none"
        THEN SessionAnswer(g.status, table, "missing", CleanSession, NoRow)
        ELSE IF c.raised # "none"
             THEN SessionAnswer(Uncaught.status, c.table, "integrity", c.session, NoRow)
             ELSE SessionAnswer(HTTP_200_OK, c.table, "ok", c.session, db_model)

\* a SQLAlchemyCRUDRouter over an empty table
InitSession ==
    /\ pagination = FALSE
    /\ backend = "sqlalchemy"
    /\ InitMemory
    /\ InitTable
    /\ NoRouter
    /\ NoThreads
    /\ NoRequests
    /\ NoSession
    /\ NoNames

\* POST <prefix>/ on a SQLAlchemyCRUDRouter
SessionCreate(key, kept) ==
    LET a == sqlalchemy_create_route(rows, seq, key, kept) IN
    /\ seq <= MaxRowId
    /\ rows' = a.table
    /\ seq' = IF a.table # rows THEN seq + 1 ELSE seq
    /\ dbresp' = [op |-> "create", status |-> a.status, item_id |-> 0,
                  key |-> key, event |-> a.event]
    /\ session' = a.session
    /\ dbpre' = rows
    /\ dbrow' = a.row
    /\ UNCHANGED <<memvars, backend, routevars, threadvars, areq, namevars>>

\* PATCH <prefix>/{item_id}/ on a SQLAlchemyCRUDRouter
SessionUpdate(item_id, key, kept) ==
    LET a == sqlalchemy_update_route(rows, item_id, key, kept) IN
    /\ rows' = a.table
    /\ dbresp' = [op |-> "update", status |-> a.status, item_id |-> item_id,
                  key |-> key, event |-> a.event]
    /\ session' = a.session
    /\ dbpre' = rows
    /\ dbrow' = a.row
    /\ UNCHANGED <<memvars, backend, seq, routevars, threadvars, areq, namevars>>

\* DELETE <prefix>/{item_id}/ on a SQLAlchemyCRUDRouter
SessionDeleteOne(item_id, referenced, kept) ==
    LET a == sqlalchemy_delete_one_route(rows, item_id, referenced, kept) IN
    /\ rows' = a.table
    /\ dbresp' = [op |-> "delete_one", status |-> a.status, item_id |-> item_id,
                  key |-> 0, event |-> a.event]
    /\ session' = a.session
    /\ dbpre' = rows
    /\ dbrow' = a.row
    /\ UNCHANGED <<memvars, backend, seq, routevars, threadvars, areq, namevars>>

NextSession ==
    \/ \E key \in Keys, kept \in BOOLEAN : SessionCreate(key, kept)
    \/ \E item_id \in RowIds, key \in Keys, kept \in BOOLEAN :
          SessionUpdate(item_id, key, kept)
    \/ \E item_id \in RowIds, referenced \in BOOLEAN, kept \in BOOLEAN :
          SessionDeleteOne(item_id, referenced, kept)

SpecSession == InitSession /\ [][NextSession]_vars

\* ------------------------------------------------- entity names
\* the truth value Python gives an Optional[str]: None and "" are false
TruthyStr(opt) == opt # None /\ opt[1] # ""

\* f"{value}": None is formatted as "None"
format(opt) == IF opt = None THEN "None" ELSE opt[1]

\* self.entity_name = entity_name or "Item"
entity_name_of(entity_name) ==
    IF TruthyStr(entity_name) THEN entity_name[1] ELSE "Item"

\* self.entity_name_plural =
\*     entity_name_plural if entity_name_plural else f"{entity_name}s"
entity_name_plural_of(entity_name, entity_name_plural) ==
    IF TruthyStr(entity_name_plural)
    THEN entity_name_plural[1]
    ELSE format(entity_name) \o "s"

\* self.summary_prefix = f"{summary_prefix} " if summary_prefix else ""
summary_prefix_of(summary_prefix) ==
    IF TruthyStr(summary_prefix) THEN summary_prefix[1] \o " " ELSE ""

\* the summary= arguments of the generated routes; a route that is not
\* registered has none
route_summaries(fl, args) ==
    LET name == entity_name_of(args.entity_name)
        plural == entity_name_plural_of(args.entity_name, args.entity_name_plural)
        prefix == summary_prefix_of(args.summary_prefix)
        If(n, text) == IF Truthy(fl[n]) THEN prefix \o text ELSE ""
    IN  [entity_name |-> name,
         entity_name_plural |-> plural,
         get_all |-> If("get_all", "List " \o plural),
         create |-> If("create", "Create " \o name),
         delete_all |-> If("delete_all", "Remove All " \o plural),
         get_one |-> If("get_one", "Remove " \o name)]

EntityNames == {None, Str(""), Str("Potato"), Str("Item")}
EntityNamePlurals == {None, Str(""), Str("Potatoes")}
SummaryPrefixes == {None, Str(""), Str("My")}

\* the arguments of a constructor call
InitNames ==
    /\ pagination = FALSE
    /\ backend = "memory"
    /\ InitMemory
    /\ InitTable
    /\ NoThreads
    /\ NoRequests
    /\ NoSession
    /\ flags \in [RouteNames -> {BoolFlag(TRUE), BoolFlag(FALSE)}]
    /\ \A n \in RouteNames \ {"get_all", "delete_all"} : flags[n] = BoolFlag(TRUE)
    /\ routes = <<>>
    /\ built = FALSE
    /\ registered = 0
    /\ names \in [entity_name : EntityNames, entity_name_plural : EntityNamePlurals,
                  summary_prefix : SummaryPrefixes]
    /\ summaries = [entity_name |-> "", entity_name_plural |-> "",
                    get_all |-> "", create |-> "", delete_all |-> "", get_one |-> ""]

\* CRUDGenerator.__init__, with the names it derives
ConstructNamed ==
    /\ ~built
    /\ built' = TRUE
    /\ routes' = generated_routes(flags)
    /\ summaries' = route_summaries(flags, names)
    /\ UNCHANGED <<memvars, backend, dbvars, flags, registered, threadvars, areq,
                   sessvars, names>>

NextNames == ConstructNamed

SpecNames == InitNames /\ [][NextNames]_vars

\* ============================================================== claims
HasId(ms, item_id) == \E k \in 1..Len(ms) : ms[k].id = item_id

\* C1: identifier uniqueness. In every state reachable by create, update,
\* delete_one and delete_all requests, no two records of the models list
\* have the same id.
C1_UniqueIds ==
    \A i, j \in 1..Len(models) : i # j => models[i].id # models[j].id

\* C1 witness: two records are stored after an update went through, and an
\* earlier record has been deleted
C1_Witness ==
    /\ resp.op = "update" /\ resp.status = HTTP_200_OK
    /\ Len(models) >= 2
    /\ Len(allocated) > Len(models)

\* C2: monotonic allocation. The first create gets id 1, every later create
\* the previous allocated id plus 1, whatever requests came in between; no
\* id is allocated twice, also after delete_all emptied the store.
C2_MonotonicAllocation ==
    /\ \A k \in 1..Len(allocated) : allocated[k] = k
    /\ resp.op = "create" =>
          /\ Len(allocated) >= 1
          /\ resp.body[1].id = allocated[Len(allocated)]
          /\ \A r \in 1..Len(pre.models) : pre.models[r].id < resp.body[1].id

\* C2 witness: a create on a store that earlier creates had filled and
\* deletes have emptied again
C2_Witness ==
    /\ resp.op = "create"
    /\ Len(pre.models) = 0
    /\ Len(allocated) >= 3

\* C3: create answers 201 and appends exactly one record: the list is the
\* previous list, unchanged and in the same order, followed by the new
\* record, so its length grows by exactly 1.
C3_CreateAppends ==
    resp.op = "create" =>
        /\ resp.status = HTTP_201_CREATED
        /\ Len(models) = Len(pre.models) + 1
        /\ \A k \in 1..Len(pre.models) : models[k] = pre.models[k]
        /\ models[Len(models)] = resp.body[1]
        /\ resp.body[1].data = resp.data
        /\ get_all_route(FALSE, models, 0, 0).body = Append(pre.models, resp.body[1])

\* C3 witness: a create on a store that already held two records
C3_Witness ==
    /\ resp.op = "create"
    /\ Len(pre.models) >= 2

\* a request that writes the record with this id: its create, an update or
\* a delete of it, or a delete of everything
WritesTo(item_id) ==
    \/ resp.op \in {"update", "delete_one"} /\ resp.item_id = item_id
    \/ resp.op = "delete_all"
    \/ resp.op = "create" /\ resp.body[1].id = item_id

\* C4 as stated: the record returned by create carries an id i, and a
\* following get_one(i), with no delete of i in between, answers 200 with
\* the payload that was posted.
C4_RoundTripUnlessDeleted ==
    (resp.op = "get_one" /\ posted.id # 0 /\ resp.item_id = posted.id
        /\ ~posted.deleted) =>
        /\ resp.status = HTTP_200_OK
        /\ resp.body[1].id = posted.id
        /\ resp.body[1].data = posted.data

\* C4 amended: a following get_one(i), with no delete and no update of i in
\* between, answers 200 with the payload that was posted; and a request
\* that is no create, update or delete of i leaves the answer of get_one(i)
\* as it was.
C4_RoundTrip ==
    /\ (resp.op = "get_one" /\ posted.id # 0 /\ resp.item_id = posted.id
          /\ ~posted.deleted /\ ~posted.updated) =>
          /\ resp.status = HTTP_200_OK
          /\ resp.body[1].id = posted.id
          /\ resp.body[1].data = posted.data
    /\ resp.op = "create" =>
          get_one_route(models, resp.body[1].id) =
              [status |-> HTTP_200_OK, body |-> <<schema(resp.data, resp.body[1].id)>>]
    /\ \A i \in ItemIds :
          ~WritesTo(i) => get_one_route(models, i) = get_one_route(pre.models, i)

\* C4 witness: get_one of the latest created id, after other records were
\* updated or deleted
C4_Witness ==
    /\ resp.op = "get_one" /\ resp.item_id = posted.id /\ posted.id >= 2
    /\ ~posted.deleted /\ ~posted.updated
    /\ resp.status = HTTP_200_OK
    /\ Len(models) < Len(allocated)

\* C5: update(i, payload) on an existing id answers 200; the record at i
\* keeps its id and its position and takes the payload's values; every
\* other record, the length and the id counter are unchanged; a following
\* get_one(i) returns the updated values.
C5_UpdateReplaces ==
    (resp.op = "update" /\ HasId(pre.models, resp.item_id)) =>
        /\ resp.status = HTTP_200_OK
        /\ Len(models) = Len(pre.models)
        /\ _id = pre._id
        /\ \A k \in 1..Len(pre.models) :
              IF pre.models[k].id = resp.item_id
              THEN /\ models[k] = schema(resp.data, resp.item_id)
                   /\ resp.body = <<models[k]>>
              ELSE models[k] = pre.models[k]
        /\ get_one_route(models, resp.item_id) =
              [status |-> HTTP_200_OK, body |-> <<schema(resp.data, resp.item_id)>>]

\* C5 witness: an update of the middle one of three records that changes
\* its values
C5_Witness ==
    /\ resp.op = "update" /\ resp.status = HTTP_200_OK
    /\ Len(pre.models) = 3
    /\ pre.models[2].id = resp.item_id
    /\ pre.models[2].data # resp.data

\* C6: delete_one(i) on an existing id answers 200 with the record as it
\* was, removes exactly that record (the others keep their values and
\* order, the length drops by 1), and a following get_one(i) answers 404.
C6_DeleteOneRemoves ==
    (resp.op = "delete_one" /\ HasId(pre.models, resp.item_id)) =>
        /\ resp.status = HTTP_200_OK
        /\ Len(resp.body) = 1
        /\ Len(models) = Len(pre.models) - 1
        /\ \A k \in 1..Len(pre.models) :
              pre.models[k].id = resp.item_id =>
                  /\ resp.body[1] = pre.models[k]
                  /\ \A j \in 1..Len(models) :
                        models[j] = IF j < k THEN pre.models[j] ELSE pre.models[j + 1]
        /\ get_one_route(models, resp.item_id).status = NOT_FOUND

\* C6 witness: the middle one of three records is deleted
C6_Witness ==
    /\ resp.op = "delete_one" /\ resp.status = HTTP_200_OK
    /\ Len(pre.models) = 3
    /\ pre.models[2].id = resp.item_id

\* C7: whatever the store holds, delete_all answers 204, the list request
\* that follows returns zero items, and get_one of any id that existed
\* answers 404.
C7_DeleteAllEmpties ==
    resp.op = "delete_all" =>
        /\ resp.status = HTTP_204_NO_CONTENT
        /\ \A page \in Pages, size \in Sizes :
              LET r == get_all_route(pagination, models, page, size) IN
              r.status = HTTP_200_OK => r.body = <<>>
        /\ get_all_route(pagination, models, 1, 1).status = HTTP_200_OK
        /\ \A k \in 1..Len(pre.models) :
              get_one_route(models, pre.models[k].id).status = NOT_FOUND

\* C7 witness: delete_all on a store of at least two records
C7_Witness ==
    /\ resp.op = "delete_all"
    /\ Len(pre.models) >= 2

\* C8: get_one, update and delete_one on an id no stored record has
\* (negative, zero, never allocated, already deleted) answer 404 and leave
\* the models list and the id counter unchanged.
C8_NotFound ==
    (resp.op \in {"get_one", "update", "delete_one"}
        /\ ~HasId(pre.models, resp.item_id)) =>
        /\ resp.status = NOT_FOUND
        /\ models = pre.models
        /\ _id = pre._id

\* C8 witness: a delete_one of an id that was allocated and deleted before,
\* while other records are stored
C8_Witness ==
    /\ resp.op = "delete_one" /\ resp.status = NOT_FOUND
    /\ \E k \in 1..Len(allocated) : allocated[k] = resp.item_id
    /\ Len(models) >= 1

\* C10: with pagination, a valid request (page p >= 1, size s >= 1) on a
\* store of n records returns the records at positions (p-1)*s up to but
\* excluding (p-1)*s + s of the insertion-ordered list, that is
\* min(s, max(0, n - (p-1)*s)) items in insertion order, and does not
\* modify the store.
C10_PaginationSlices ==
    (resp.op = "get_all" /\ pagination /\ resp.page >= 1 /\ resp.size >= 1) =>
        LET n == Len(pre.models)
            off == (resp.page - 1) * resp.size
        IN  /\ resp.status = HTTP_200_OK
            /\ Len(resp.body) = Min(resp.size, Max(0, n - off))
            /\ \A k \in 1..Len(resp.body) : resp.body[k] = pre.models[off + k]
            /\ \A k \in 1..(Len(resp.body) - 1) : resp.body[k].id < resp.body[k + 1].id
            /\ models = pre.models
            /\ _id = pre._id

\* C10 witness: a second page that the store fills only in part
C10_Witness ==
    /\ resp.op = "get_all" /\ pagination /\ resp.status = HTTP_200_OK
    /\ resp.page >= 2
    /\ Len(resp.body) >= 1
    /\ Len(resp.body) < resp.size

\* C9: in create, update and delete_one of every database adapter an
\* integrity violation raised by the backend is answered with 422 and a
\* missing row with 404; no integrity violation is answered with 404 or
\* left untranslated.
C9_ErrorTranslation ==
    dbresp.op \in {"create", "update", "delete_one"} =>
        /\ dbresp.event = "integrity" => dbresp.status = UNPROCESSABLE
        /\ dbresp.event = "missing" => dbresp.status = NOT_FOUND

\* C11 as stated: for a store of count records a paginated list request
\* with page p and size s returns exactly s items when p*s <= count and 0
\* items when p*s > count.
C11_ExpectedLengthOfTest ==
    (resp.op = "get_all" /\ pagination /\ resp.status = HTTP_200_OK) =>
        Len(resp.body) = IF resp.page * resp.size <= Len(pre.models)
                         THEN resp.size ELSE 0

\* C11 amended: it returns exactly s items when p*s <= count, 0 items when
\* (p-1)*s >= count, and the count - (p-1)*s remaining items when
\* (p-1)*s < count < p*s.
C11_ExpectedLength ==
    (resp.op = "get_all" /\ pagination /\ resp.page >= 1 /\ resp.size >= 1) =>
        LET count == Len(pre.models)
            p == resp.page
            s == resp.size
        IN  /\ resp.status = HTTP_200_OK
            /\ resp.total = count
            /\ p * s <= count => Len(resp.body) = s
            /\ (p - 1) * s >= count => Len(resp.body) = 0
            /\ ((p - 1) * s < count /\ count < p * s) =>
                  Len(resp.body) = count - (p - 1) * s

\* C11 witness: a last page that holds fewer than s and more than 0 items
C11_Witness ==
    /\ resp.op = "get_all" /\ pagination /\ resp.status = HTTP_200_OK
    /\ resp.page * resp.size > Len(pre.models)
    /\ Len(resp.body) > 0

IdsOf(ms) == {ms[k].id : k \in 1..Len(ms)}

\* the ids on page p of size s, as the list route returns them
PageIds(ms, p, s) == IdsOf(get_all_route(TRUE, ms, p, s).body)

\* C12: with no write in between, pages 1, 2, 3, ... of a fixed size s are
\* pairwise disjoint sets of ids and their union is the set of ids of all
\* stored records.
C12_PagingPartitions ==
    pagination =>
        \A s \in 1..MaxSize :
            LET last == Len(models) + 1 IN
            /\ \A p, q \in 1..last :
                  p # q => PageIds(models, p, s) \cap PageIds(models, q, s) = {}
            /\ \A p \in 1..last :
                  Cardinality(PageIds(models, p, s)) =
                      Len(get_all_route(TRUE, models, p, s).body)
            /\ UNION {PageIds(models, p, s) : p \in 1..last} = IdsOf(models)
            /\ IdsOf(models) \subseteq {allocated[k] : k \in 1..Len(allocated)}

\* C12 witness: the second page of a store that needs more than one page,
\* read with no write in between
C12_Witness ==
    /\ pagination
    /\ resp.op = "get_all" /\ resp.status = HTTP_200_OK
    /\ resp.page = 2 /\ resp.size >= 2
    /\ Len(models) > resp.size
    /\ IdsOf(resp.body) = PageIds(models, 2, resp.size)

\* C13: with pagination disabled the list route returns every stored
\* record, as many as creates minus deletes have left, in insertion order.
C13_UnpaginatedReturnsAll ==
    (resp.op = "get_all" /\ ~pagination) =>
        /\ resp.status = HTTP_200_OK
        /\ resp.body = pre.models
        /\ models = pre.models
        /\ Len(resp.body) = Len(models)
        /\ \A k \in 1..(Len(resp.body) - 1) : resp.body[k].id < resp.body[k + 1].id
        /\ (posted.id # 0 /\ ~posted.deleted) => posted.id \in IdsOf(resp.body)
        /\ IdsOf(resp.body) \subseteq {allocated[k] : k \in 1..Len(allocated)}

\* C13 witness: three records are listed without pagination
C13_Witness ==
    /\ resp.op = "get_all" /\ ~pagination
    /\ Len(resp.body) = 3

RouteNamed(n) == \E k \in 1..Len(routes) : routes[k].name = n

\* the (path, method) pairs the routes answer, each route with its own methods
Pairs(rs) == UNION {{<<rs[k].path, m>> : m \in rs[k].methods} : k \in 1..Len(rs)}

\* no (path, method) pair is answered by two routes
OncePerPair(rs) ==
    \A i, j \in 1..Len(rs) :
        (i # j /\ rs[i].path = rs[j].path) => rs[i].methods \cap rs[j].methods = {}

\* C14: a router built with all six route flags enabled registers exactly
\* two paths, the collection path with exactly GET, POST and DELETE and the
\* item path with exactly GET, PATCH and DELETE, each pair exactly once.
C14_RouteSurface ==
    (built /\ \A n \in RouteNames : flags[n] = BoolFlag(TRUE)) =>
        /\ {routes[k].path : k \in 1..Len(routes)} = {CollectionPath, ItemPath}
        /\ Pairs(routes) =
              {<<CollectionPath, "GET">>, <<CollectionPath, "POST">>,
               <<CollectionPath, "DELETE">>, <<ItemPath, "GET">>,
               <<ItemPath, "PATCH">>, <<ItemPath, "DELETE">>}
        /\ OncePerPair(routes)
        /\ Len(routes) = Cardinality(RouteNames)

\* C14 witness: the router built with all six flags True
C14_Witness ==
    /\ built
    /\ \A n \in RouteNames : flags[n] = BoolFlag(TRUE)
    /\ Len(routes) > 0

\* C15: each generated route on the collection path and on the item path
\* declares a 200 response in the generated API schema.
C15_Declares200 ==
    built => \A k \in 1..Len(routes) : HTTP_200_OK \in openapi_responses(routes[k])

\* C16: each of the three item routes is registered with a declared 404
\* 'Item not found' error response, and none of the three collection
\* routes is.
C16_Declares404 ==
    built =>
        \A k \in 1..Len(routes) :
            /\ routes[k].name \in {"get_one", "update", "delete_one"} =>
                  /\ routes[k].path = ItemPath
                  /\ routes[k].responses = {NOT_FOUND_ERROR}
                  /\ NOT_FOUND \in openapi_responses(routes[k])
            /\ routes[k].name \in {"get_all", "create", "delete_all"} =>
                  /\ routes[k].path = CollectionPath
                  /\ routes[k].responses = {}
                  /\ NOT_FOUND \notin openapi_responses(routes[k])

\* C16 witness: a built router with an item route and a collection route,
\* one of them given a sequence of dependencies
C16_Witness ==
    /\ built
    /\ RouteNamed("update") /\ RouteNamed("delete_all")
    /\ flags["update"].kind = "seq"

\* C17: registering a custom handler through api_route, get, post, put or
\* delete for a path and method a generated route occupies removes the
\* generated route: after any sequence of registrations the router holds at
\* most one route per (path, method), and it is the one registered last.
C17_OverrideReplaces ==
    /\ OncePerPair(routes)
    /\ registered > 0 =>
          /\ Len(routes) > 0
          /\ routes[Len(routes)].order = registered

\* C20: each of the six routes is registered exactly when its argument is
\* True or a sequence of dependencies, the empty sequence included, and left
\* out only when it is False; a sequence's elements become the route's
\* dependencies, True gives an empty dependency list.
C20_RouteEnabling ==
    built =>
        \A n \in RouteNames :
            /\ RouteNamed(n) <=> (flags[n] = BoolFlag(TRUE) \/ flags[n].kind = "seq")
            /\ ~RouteNamed(n) => flags[n] = BoolFlag(FALSE)
            /\ \A k \in 1..Len(routes) :
                  routes[k].name = n =>
                      routes[k].dependencies =
                          IF flags[n].kind = "seq" THEN flags[n].deps ELSE <<>>

\* C18: identifier uniqueness under concurrency. When create requests on
\* the same MemoryCRUDRouter run interleaved, no two stored records have the
\* same id, no id is handed out twice, and once every request has finished
\* no id below the counter has been skipped.
C18_UniqueUnderInterleaving ==
    /\ \A i, j \in 1..Len(models) : i # j => models[i].id # models[j].id
    /\ \A i, j \in 1..Len(allocated) : i # j => allocated[i] # allocated[j]
    /\ (\A t \in Threads : tpc[t] = "idle") =>
          {allocated[k] : k \in 1..Len(allocated)} = 1..(_id - 1)

\* C19: delete-one is answered successfully at most once per record. Two
\* delete_one requests of an async backend for the same id never both
\* answer 200: when both found the row, one answers 200 and the other 404.
C19_DeleteAnsweredOnce ==
    \A r1, r2 \in Requests :
        (/\ r1 # r2
         /\ areq[r1].pc = "done" /\ areq[r2].pc = "done"
         /\ areq[r1].item_id = areq[r2].item_id
         /\ areq[r1].status = HTTP_200_OK)
            => areq[r2].status = NOT_FOUND

\* C21: a conflict leaves the SQLAlchemy store unchanged. When create or
\* update hits an integrity violation at commit, the session is rolled back
\* before the 422 is raised: the rows after the failed request are the rows
\* before it, and the session holds no pending change that a later commit
\* on it could persist.
C21_ConflictRollsBack ==
    (dbresp.op \in {"create", "update"} /\ dbresp.event = "integrity") =>
        /\ dbresp.status = UNPROCESSABLE
        /\ rows = dbpre
        /\ session.pending = {}
        /\ session.state = "active"
        /\ \A referenced, kept \in BOOLEAN :
              session_commit(rows, session, referenced, kept).table = rows

\* C21 witness: an update that ran into another row's key
C21_Witness ==
    /\ dbresp.op = "update"
    /\ dbresp.event = "integrity"
    /\ Cardinality(rows) >= 2
    /\ \E r \in rows : r.id # dbresp.item_id /\ r.key = dbresp.key

\* C22: a missing row leaves the database backends unchanged. In every
\* adapter, update and delete_one on an id that no row has answer 404 and
\* neither modify nor delete any row; delete_one looks the row up before it
\* deletes, so on success it returns the row as it was before the deletion.
C22_MissingRowNoEffect ==
    /\ (dbresp.op \in {"update", "delete_one"}
        /\ ~\E r \in dbpre : r.id = dbresp.item_id) =>
          /\ dbresp.status = NOT_FOUND
          /\ rows = dbpre
          /\ dbrow = NoRow
    /\ (dbresp.op = "delete_one" /\ dbresp.status = HTTP_200_OK) =>
          /\ dbrow \in dbpre
          /\ dbrow.id = dbresp.item_id
          /\ rows = dbpre \ {dbrow}

\* C22 witness: an update of an id that no row has, on a table that holds
\* rows, some row of which was deleted before
C22_Witness ==
    /\ dbresp.op = "update"
    /\ dbresp.status = NOT_FOUND
    /\ rows # {}
    /\ ~\E r \in dbpre : r.id = dbresp.item_id
    /\ dbresp.item_id < seq

\* C23: default entity names. When entity_name_plural is not given, the
\* plural used in the list and delete-all summaries is the router's entity
\* name followed by 's'; when entity_name is not given either, the entity
\* name is 'Item' and the plural is 'Items'.
C23_DefaultEntityNames ==
    (built /\ names.entity_name_plural = None) =>
        /\ summaries.entity_name_plural = summaries.entity_name \o "s"
        /\ RouteNamed("get_all") =>
              summaries.get_all =
                  summary_prefix_of(names.summary_prefix) \o "List "
                      \o summaries.entity_name \o "s"
        /\ RouteNamed("delete_all") =>
              summaries.delete_all =
                  summary_prefix_of(names.summary_prefix) \o "Remove All "
                      \o summaries.entity_name \o "s"
        /\ names.entity_name = None =>
              /\ summaries.entity_name = "Item"
              /\ summaries.entity_name_plural = "Items"

====
